---------------------------- MODULE Spec2Model ----------------------------
(***************************************************************************)
(* DatumEither<E, A> = Datum<Either<E, A>> (src/src/DatumEither.ts).       *)
(*                                                                         *)
(* A client holds one DatumEither value, fea, and applies the module's     *)
(* constructors, the toRefresh transition, the pipeable transformers       *)
(* (map, mapLeft, bimap, chain, alt) and the eliminators (refreshFold,     *)
(* squash) to it.  Every caller-supplied function (a Lazy thunk, a         *)
(* handler, a Kleisli arrow) is traced: applying it yields the returned    *)
(* value together with the record of the call, so the number of            *)
(* evaluations an operation makes is part of its result.                   *)
(***************************************************************************)
EXTENDS Integers, Sequences, FiniteSets, TLC

\* Success payloads are 1..MaxVal.
MaxVal == 2

A == 1..MaxVal
E == {"e1", "e2"}

\* The argument of a zero-argument function (Lazy<T>, () => B).
Unit == << >>

---------------------------------------------------------------------------
\* Traced evaluation: [ret |-> the value, calls |-> the caller-supplied
\* functions that were invoked, in order].
Pure(v) == [ret |-> v, calls |-> << >>]
Call(c, v) == [ret |-> v, calls |-> << c >>]

---------------------------------------------------------------------------
\* fp-ts/lib/Either
left(e) == [_tag |-> "Left", left |-> e]
right(a) == [_tag |-> "Right", right |-> a]
isLeft(ma) == ma._tag = "Left"
isRight(ma) == ma._tag = "Right"

Either == {left(e) : e \in E} \cup {right(a) : a \in A}

\* either.map, either.mapLeft, either.bimap
either_map(ma, f) == IF isLeft(ma) THEN ma ELSE right(f[ma.right])
either_mapLeft(ma, f) == IF isLeft(ma) THEN left(f[ma.left]) ELSE ma
either_bimap(ma, f, g) == IF isLeft(ma) THEN left(f[ma.left]) ELSE right(g[ma.right])

\* fp-ts/lib/Option and Either.fromOption
none == [_tag |-> "None"]
some(a) == [_tag |-> "Some", value |-> a]
Option == {none} \cup {some(a) : a \in A}
eitherFromOption(onNone, ma) ==
    IF ma._tag = "None"
    THEN LET r == onNone[Unit] IN [ret |-> left(r.ret), calls |-> r.calls]
    ELSE Pure(right(ma.value))

---------------------------------------------------------------------------
\* ./Datum
refresh(value) == [_tag |-> "Refresh", value |-> value]
replete(value) == [_tag |-> "Replete", value |-> value]
isValued(ma) == ma._tag \in {"Refresh", "Replete"}

fold(onInitial, onPending, onRefresh, onReplete, ma) ==
    CASE ma._tag = "Initial" -> onInitial[Unit]
      [] ma._tag = "Pending" -> onPending[Unit]
      [] ma._tag = "Refresh" -> onRefresh[ma.value]
      [] ma._tag = "Replete" -> onReplete[ma.value]

\* The Monad instance `datum`: of, map, chain.  f is a function over Either.
datum_of(a) == replete(a)
datum_map(ma, f) ==
    CASE ma._tag = "Refresh" -> refresh(f[ma.value])
      [] ma._tag = "Replete" -> replete(f[ma.value])
      [] OTHER -> ma
\* f is traced; a receiver without a value is returned and f is not applied.
datum_chain(ma, f) == IF isValued(ma) THEN f[ma.value] ELSE Pure(ma)

---------------------------------------------------------------------------
\* DatumEither.ts
success(a) == replete(right(a))
failure(e) == replete(left(e))
initial == [_tag |-> "Initial"]
pending == [_tag |-> "Pending"]
constInitial == [u \in {Unit} |-> initial]
constPending == [u \in {Unit} |-> pending]

DatumEither == {initial, pending} \cup {refresh(x) : x \in Either}
                   \cup {replete(x) : x \in Either}

isSuccess(fea) == isValued(fea) /\ isRight(fea.value)
\* A variant of isFailure that tests the wrong side.
isFailure_testsRight(fea) == isValued(fea) /\ isRight(fea.value)
isFailure(fea) == isValued(fea) /\ isLeft(fea.value)

\* Variants of toRefresh: a Refresh loses its value; Refresh and Replete
\* trade places; Initial is left as it is.
toRefresh_dropsRefresh(fea) ==
    fold(constPending, constPending, [x \in Either |-> pending],
         [a \in Either |-> refresh(a)], fea)
toRefresh_toggles(fea) ==
    fold(constPending, constPending, [a \in Either |-> replete(a)],
         [a \in Either |-> refresh(a)], fea)
toRefresh_keepsInitial(fea) ==
    fold(constInitial, constPending, [x \in Either |-> fea],
         [a \in Either |-> refresh(a)], fea)

toRefresh(fea) ==
    fold(constPending,
         constPending,
         [x \in Either |-> fea],
         [a \in Either |-> refresh(a)],
         fea)

fromEither(e) == LET r == e[Unit] IN [ret |-> replete(r.ret), calls |-> r.calls]

fromOption(onNone, o) ==
    LET r == eitherFromOption(onNone, o) IN [ret |-> replete(r.ret), calls |-> r.calls]

\* a is null, undefined or a value of A.
null == [_type |-> "null"]
undefined == [_type |-> "undefined"]
present(a) == [_type |-> "value", value |-> a]
Nullable == {null, undefined} \cup {present(a) : a \in A}
fromNullable(a) == IF a = null \/ a = undefined THEN initial ELSE success(a.value)

\* A variant of refreshFold with the two flags exchanged.
refreshFold_flagsSwapped(onInitial, onPending, onFailure, onSuccess, fea) ==
    fold(onInitial,
         onPending,
         [e \in Either |-> IF isRight(e) THEN onSuccess[<<e.right, FALSE>>]
                                         ELSE onFailure[<<e.left, FALSE>>]],
         [e \in Either |-> IF isRight(e) THEN onSuccess[<<e.right, TRUE>>]
                                         ELSE onFailure[<<e.left, TRUE>>]],
         fea)

refreshFold(onInitial, onPending, onFailure, onSuccess, fea) ==
    fold(onInitial,
         onPending,
         [e \in Either |-> IF isRight(e) THEN onSuccess[<<e.right, TRUE>>]
                                         ELSE onFailure[<<e.left, TRUE>>]],
         [e \in Either |-> IF isRight(e) THEN onSuccess[<<e.right, FALSE>>]
                                         ELSE onFailure[<<e.left, FALSE>>]],
         fea)

\* A variant of squash whose onNone flags are exchanged.
squash_noneSwapped(onNone, onFailure, onSuccess, fea) ==
    fold([u \in {Unit} |-> onNone[TRUE]],
         [u \in {Unit} |-> onNone[FALSE]],
         [e \in Either |-> IF isRight(e) THEN onSuccess[<<e.right, TRUE>>]
                                         ELSE onFailure[<<e.left, TRUE>>]],
         [e \in Either |-> IF isRight(e) THEN onSuccess[<<e.right, FALSE>>]
                                         ELSE onFailure[<<e.left, FALSE>>]],
         fea)

squash(onNone, onFailure, onSuccess, fea) ==
    fold([u \in {Unit} |-> onNone[FALSE]],
         [u \in {Unit} |-> onNone[TRUE]],
         [e \in Either |-> IF isRight(e) THEN onSuccess[<<e.right, TRUE>>]
                                         ELSE onFailure[<<e.left, TRUE>>]],
         [e \in Either |-> IF isRight(e) THEN onSuccess[<<e.right, FALSE>>]
                                         ELSE onFailure[<<e.left, FALSE>>]],
         fea)

\* datumEither = {...getEitherM(datum), URI}: fp-ts's EitherT over `datum`.
datumEither_of(a) == datum_of(right(a))
\* A variant of map derived from chain and of: the result is always Replete.
datumEither_map_viaChain(fa, f) ==
    datum_chain(fa, [ga \in Either |-> Pure(datum_of(either_map(ga, f)))]).ret
datumEither_map(fa, f) == datum_map(fa, [ga \in Either |-> either_map(ga, f)])
datumEither_mapLeft(ma, f) == datum_map(ma, [e \in Either |-> either_mapLeft(e, f)])
datumEither_bimap(ma, f, g) == datum_map(ma, [e \in Either |-> either_bimap(e, f, g)])
datumEither_chain(ma, f) ==
    datum_chain(ma, [e \in Either |-> IF isLeft(e) THEN Pure(datum_of(left(e.left)))
                                                   ELSE f[e.right]])
datumEither_alt(fx, f) ==
    datum_chain(fx, [e \in Either |-> IF isLeft(e) THEN f[Unit]
                                                   ELSE Pure(datumEither_of(e.right))])

\* pipeable(datumEither)
map(f, fa) == datumEither_map(fa, f)
mapLeft(f, fa) == datumEither_mapLeft(fa, f)
bimap(f, g, fa) == datumEither_bimap(fa, f, g)
chain(f, ma) == datumEither_chain(ma, f)
alt(that, fa) == datumEither_alt(fa, that)

---------------------------------------------------------------------------
\* The client's functions.  Each is traced: it returns its value and
\* records that it was called, and with what.
Kleisli == [A -> DatumEither]
tracedF(f) == [a \in A |-> Call([fn |-> "f", a |-> a], f[a])]
tracedThat(v) == [u \in {Unit} |-> Call([fn |-> "that"], v)]
tracedLazy(name, v) == [u \in {Unit} |-> Call([fn |-> name], v)]

\* A handler returns the record of its own call, so the result of an
\* eliminator names the handler that produced it and the arguments it got.
onInitialH == [u \in {Unit} |-> LET c == [fn |-> "onInitial"] IN Call(c, c)]
onPendingH == [u \in {Unit} |-> LET c == [fn |-> "onPending"] IN Call(c, c)]
onNoneH == [r \in BOOLEAN |-> LET c == [fn |-> "onNone", r |-> r] IN Call(c, c)]
onFailureH ==
    [p \in E \X BOOLEAN |->
        LET c == [fn |-> "onFailure", e |-> p[1], r |-> p[2]] IN Call(c, c)]
onSuccessH ==
    [p \in A \X BOOLEAN |->
        LET c == [fn |-> "onSuccess", a |-> p[1], r |-> p[2]] IN Call(c, c)]

---------------------------------------------------------------------------
VARIABLES
    fea,    \* the DatumEither the client holds
    op,     \* the last operation applied
    arg,    \* the value the last operation was applied to
    par,    \* the last operation's other arguments, as a record naming them
    res,    \* what the last operation returned
    log,    \* the client functions the last operation called, in order
    base    \* the value held before the current run of map/mapLeft/bimap

vars == <<fea, op, arg, par, res, log, base>>

Lifting == {"map", "mapLeft", "bimap"}

\* The argument record of an operation that takes the value alone.
NoPar == [none |-> TRUE]

Init ==
    /\ fea = initial
    /\ op = "initial"
    /\ arg = initial
    /\ par = NoPar
    /\ res = initial
    /\ log = << >>
    /\ base = initial

\* A constructor or transformer: the client replaces fea by the result.
Replace(o, p, r) ==
    /\ op' = o
    /\ arg' = fea
    /\ par' = p
    /\ res' = r.ret
    /\ log' = r.calls
    /\ fea' = r.ret
    /\ base' = IF o \in Lifting THEN base ELSE r.ret

\* An eliminator: the client keeps fea and gets the handler's result.
Consume(o, r) ==
    /\ op' = o
    /\ arg' = fea
    /\ par' = NoPar
    /\ res' = r.ret
    /\ log' = r.calls
    /\ UNCHANGED <<fea, base>>

Success == \E a \in A : Replace("success", [a |-> a], Pure(success(a)))
Failure == \E e \in E : Replace("failure", [e |-> e], Pure(failure(e)))
Initial == Replace("initial", NoPar, Pure(initial))
Pending == Replace("pending", NoPar, Pure(pending))
FromEither == \E x \in Either : Replace("fromEither", [either |-> x], fromEither(tracedLazy("e", x)))
FromOption ==
    \E e \in E, o \in Option :
        Replace("fromOption", [onNone |-> e, o |-> o], fromOption(tracedLazy("onNone", e), o))
FromNullable == \E a \in Nullable : Replace("fromNullable", [nullable |-> a], Pure(fromNullable(a)))

ToRefresh == Replace("toRefresh", NoPar, Pure(toRefresh(fea)))

Map == \E f \in [A -> A] : Replace("map", [mapF |-> f], Pure(map(f, fea)))
MapLeft == \E f \in [E -> E] : Replace("mapLeft", [mapLeftF |-> f], Pure(mapLeft(f, fea)))
Bimap ==
    \E f \in [E -> E], g \in [A -> A] :
        Replace("bimap", [bimapF |-> f, bimapG |-> g], Pure(bimap(f, g, fea)))
Chain == \E f \in Kleisli : Replace("chain", [chainF |-> f], chain(tracedF(f), fea))
Alt == \E v \in DatumEither : Replace("alt", [that |-> v], alt(tracedThat(v), fea))

RefreshFold ==
    Consume("refreshFold", refreshFold(onInitialH, onPendingH, onFailureH, onSuccessH, fea))
Squash == Consume("squash", squash(onNoneH, onFailureH, onSuccessH, fea))

\* Everything but chain: constructors, toRefresh, the payload transformers,
\* alt and the eliminators.
Next ==
    \/ Success \/ Failure \/ Initial \/ Pending
    \/ FromEither \/ FromOption \/ FromNullable
    \/ ToRefresh
    \/ Map \/ MapLeft \/ Bimap \/ Alt
    \/ RefreshFold \/ Squash

Spec == Init /\ [][Next]_vars

\* The same client, also chaining every Kleisli arrow A -> DatumEither.
NextChain == Next \/ Chain

SpecChain == Init /\ [][NextChain]_vars

TypeOK ==
    /\ fea \in DatumEither
    /\ arg \in DatumEither
    /\ base \in DatumEither

---------------------------------------------------------------------------
\* C1 as stated: toRefresh(NotRequested) = NotRequested, toRefresh(Loading) =
\* Loading, toRefresh(Settled(o)) = Refreshing(o), toRefresh(Refreshing(o)) =
\* Refreshing(o); the identity on the two payload-free states.
C1_ToRefreshTableAsStated ==
    op = "toRefresh" =>
        res = (IF arg._tag = "Replete" THEN refresh(arg.value) ELSE arg)

\* C1 (amended): toRefresh(NotRequested) = Loading, toRefresh(Loading) =
\* Loading, toRefresh(Settled(o)) = Refreshing(o), toRefresh(Refreshing(o)) =
\* Refreshing(o); of the payload-free states only Loading is left as it is.
C1_ToRefreshTable ==
    op = "toRefresh" =>
        /\ arg = initial => res = pending
        /\ arg = pending => res = pending
        /\ \A o \in Either : arg = replete(o) => res = refresh(o)
        /\ \A o \in Either : arg = refresh(o) => res = refresh(o)

C1_Witness == op = "toRefresh" /\ arg = initial /\ fea = pending

\* C2: toRefresh is idempotent: toRefresh(toRefresh(s)) = toRefresh(s) for
\* each of the six shapes, so applying it again to its own result changes
\* nothing.
C2_ToRefreshIdempotent ==
    /\ toRefresh(toRefresh(fea)) = toRefresh(fea)
    /\ op = "toRefresh" => toRefresh(fea) = fea

C2_Witness == op = "toRefresh" /\ arg._tag = "Refresh" /\ fea = arg

\* The three laws, each for the value held and all Kleisli arrows f, g.
C3_LeftIdentity ==
    \A f \in Kleisli, a \in A : chain(tracedF(f), success(a)).ret = f[a]
C3_RightIdentity ==
    chain([a \in A |-> Pure(success(a))], fea).ret = fea
C3_Associativity ==
    \A f, g \in Kleisli :
        chain(tracedF(g), chain(tracedF(f), fea).ret).ret
            = chain([a \in A |-> chain(tracedF(g), f[a])], fea).ret

\* C3: the monad laws hold for chain with success as the unit, for all six
\* shapes s and all f, g: left identity chain(f)(success(a)) = f(a); right
\* identity chain(success)(s) = s, also for a Refreshing s; associativity
\* chain(g)(chain(f)(s)) = chain(a => chain(g)(f(a)))(s).
C3_MonadLaws == C3_RightIdentity /\ C3_LeftIdentity /\ C3_Associativity

\* C4: chain(f)(s) returns s, without calling f, when s is NotRequested,
\* Loading, Refreshing(Failure(e)) or Settled(Failure(e)); when s carries
\* Success(a) it calls f once and returns exactly f(a).
C4_ChainShortCircuits ==
    op = "chain" =>
        IF isSuccess(arg)
        THEN /\ res = par.chainF[arg.value.right]
             /\ log = << [fn |-> "f", a |-> arg.value.right] >>
        ELSE /\ res = arg
             /\ log = << >>

\* C5: alt(that)(s) returns s and evaluates that zero times when s is
\* Refreshing(Success(a)) or Settled(Success(a)); for every other shape it
\* evaluates that exactly once and returns that().
C5_AltLazy ==
    op = "alt" =>
        IF isSuccess(arg)
        THEN /\ res = arg
             /\ log = << >>
        ELSE /\ res = par.that
             /\ log = << [fn |-> "that"] >>

\* C6: after any run of map, mapLeft and bimap the lifecycle tag is the one
\* the run started from; NotRequested and Loading are returned unchanged; map
\* transforms only a Success payload, mapLeft only a Failure payload, bimap
\* the one that is there.
C6_LiftingKeepsTag ==
    op \in Lifting =>
        /\ fea._tag = base._tag
        /\ fea._tag = arg._tag
        /\ ~isValued(arg) => fea = arg
        /\ op = "map" =>
              IF isSuccess(arg)
              THEN fea = [_tag |-> arg._tag, value |-> right(par.mapF[arg.value.right])]
              ELSE fea = arg
        /\ op = "mapLeft" =>
              IF isFailure(arg)
              THEN fea = [_tag |-> arg._tag, value |-> left(par.mapLeftF[arg.value.left])]
              ELSE fea = arg
        /\ op = "bimap" /\ isSuccess(arg) =>
              fea = [_tag |-> arg._tag, value |-> right(par.bimapG[arg.value.right])]
        /\ op = "bimap" /\ isFailure(arg) =>
              fea = [_tag |-> arg._tag, value |-> left(par.bimapF[arg.value.left])]

C6_Witness ==
    /\ op = "map"
    /\ arg._tag = "Refresh"
    /\ isSuccess(arg)
    /\ fea # arg
    /\ base # arg

\* C7: refreshFold calls exactly one handler, once, and returns its result:
\* onNotRequested for NotRequested, onLoading for Loading, onFailure(e, r) for
\* a Failure and onSuccess(a, r) for a Success, with r true iff the value is
\* Refreshing.
C7_RefreshFoldTable ==
    op = "refreshFold" =>
        /\ Len(log) = 1
        /\ res = log[1]
        /\ arg = initial => res = [fn |-> "onInitial"]
        /\ arg = pending => res = [fn |-> "onPending"]
        /\ \A e \in E :
              /\ arg = refresh(left(e)) => res = [fn |-> "onFailure", e |-> e, r |-> TRUE]
              /\ arg = replete(left(e)) => res = [fn |-> "onFailure", e |-> e, r |-> FALSE]
        /\ \A a \in A :
              /\ arg = refresh(right(a)) => res = [fn |-> "onSuccess", a |-> a, r |-> TRUE]
              /\ arg = replete(right(a)) => res = [fn |-> "onSuccess", a |-> a, r |-> FALSE]

C7_Witness == op = "refreshFold" /\ \E e \in E : arg = refresh(left(e))

\* C8: squash calls onNone(false) for NotRequested and onNone(true) for
\* Loading, and onFailure or onSuccess by the carried Outcome with flag true
\* for Refreshing and false for Settled; the flag is false exactly for the
\* values at rest (NotRequested, Settled) and true for those in flight
\* (Loading, Refreshing).
C8_SquashTable ==
    op = "squash" =>
        /\ Len(log) = 1
        /\ res = log[1]
        /\ arg = initial => res = [fn |-> "onNone", r |-> FALSE]
        /\ arg = pending => res = [fn |-> "onNone", r |-> TRUE]
        /\ isFailure(arg) =>
              res = [fn |-> "onFailure", e |-> arg.value.left, r |-> arg._tag = "Refresh"]
        /\ isSuccess(arg) =>
              res = [fn |-> "onSuccess", a |-> arg.value.right, r |-> arg._tag = "Refresh"]
        /\ res.r = (arg._tag \in {"Pending", "Refresh"})

C8_Witness == op = "squash" /\ arg = pending

\* C9: for every value a client can hold, isSuccess and isFailure are never
\* both true, each implies isValued, and isValued holds exactly for the
\* values built by refresh or replete.
C9_Predicates ==
    /\ ~(isSuccess(fea) /\ isFailure(fea))
    /\ isSuccess(fea) => isValued(fea)
    /\ isFailure(fea) => isValued(fea)
    /\ isValued(fea) <=> \E x \in Either : fea = refresh(x) \/ fea = replete(x)
    /\ isFailure(fea) <=> \E e \in E : fea = refresh(left(e)) \/ fea = replete(left(e))
    /\ isSuccess(fea) <=> \E a \in A : fea = refresh(right(a)) \/ fea = replete(right(a))

C9_Witness == op = "toRefresh" /\ isFailure(fea) /\ fea._tag = "Refresh"

\* C10: toRefresh(s) is never Settled and never NotRequested and keeps the
\* Outcome s carries; squash and refreshFold applied to it never pass the
\* flag false to a handler.
C10_RefreshedIsInFlight ==
    op = "toRefresh" =>
        /\ fea._tag \notin {"Replete", "Initial"}
        /\ isSuccess(fea) <=> isSuccess(arg)
        /\ isFailure(fea) <=> isFailure(arg)
        /\ isValued(arg) => fea = refresh(arg.value)
        /\ squash(onNoneH, onFailureH, onSuccessH, fea).ret.r = TRUE
        /\ LET r == refreshFold(onInitialH, onPendingH, onFailureH, onSuccessH, fea)
           IN  r.calls # << >> /\ ("r" \in DOMAIN r.ret => r.ret.r = TRUE)

C10_Witness == op = "toRefresh" /\ arg._tag = "Replete" /\ isSuccess(fea)

=============================================================================
